---- MODULE Spec2Model ----
(***************************************************************************)
(* Model of src/app.py: the YouTube summarizer service.                    *)
(*                                                                         *)
(* Two specifications:                                                     *)
(*   SpecStartup  the module-level code of app.py (lines 53-76) executed   *)
(*                statement by statement when the process starts;          *)
(*   Spec         the functions of app.py (extract_video_id,               *)
(*                fetch_transcript, build_prompt, summarize_with_gemini    *)
(*                and the /summarize handler) applied to inputs and        *)
(*                collaborator responses drawn from bounded sets.          *)
(*                                                                         *)
(* Data representation:                                                    *)
(*   - URL strings are sequences of one-character strings;                 *)
(*   - transcript / summary texts are run-length encoded: a sequence of    *)
(*     runs [c |-> character, n |-> repetitions], no run empty, adjacent   *)
(*     runs of different characters, so that texts around the 12000        *)
(*     character ceiling stay small values;                                *)
(*   - an Optional value is a sequence of length at most one:              *)
(*     None is <<>>, a present value x is <<x>>.                           *)
(***************************************************************************)
EXTENDS Integers, Sequences, FiniteSets, TLC

VARIABLES
    op,          \* name of the function last applied ("none" before any call)
    arg,         \* its arguments
    env,         \* what the external collaborators answer during the call
    res,         \* its outcome
    pc,          \* startup: next module-level statement to execute
    environ,     \* startup: os.environ[GOOGLE_API_KEY] (Optional)
    dotenvFile,  \* startup: value of GOOGLE_API_KEY in the .env file (Optional)
    API_KEY,     \* startup: module global API_KEY (Optional)
    fatal,       \* startup: exception that ended the import ("none" if none)
    served,      \* startup: paths for which a request has been served
    refused      \* startup: number of connection attempts that found no server

vars == <<op, arg, env, res, pc, environ, dotenvFile, API_KEY, fatal, served, refused>>
fnVars == <<op, arg, env, res>>
bootVars == <<pc, environ, dotenvFile, API_KEY, fatal, served, refused>>

----------------------------------------------------------------------------
(* Bounds of the model *)

\* longest URL input, counted in tokens of UrlTokens
MaxTokens == 4
\* longest transcript / text input, counted in runs
MaxRuns == 3
\* most text elements in a downloaded subtitle document
MaxSegs == 2
\* most connection attempts a client makes against the process
MaxAttempts == 3

----------------------------------------------------------------------------
(* Optional values and Python truthiness *)

None == <<>>
Some(x) == <<x>>

\* the smallest element of a non-empty set of integers
Min(S) == CHOOSE x \in S : \A y \in S : x <= y

\* all sequences over S of length at most n
SeqsUpTo(S, n) == UNION {[1..k -> S] : k \in 0..n}

----------------------------------------------------------------------------
(* Character strings (URLs) *)

LowerChars == {"a","b","c","d","e","f","g","h","i","j","k","l","m",
               "n","o","p","q","r","s","t","u","v","w","x","y","z"}
UpperChars == {"A","B","C","D","E","F","G","H","I","J","K","L","M",
               "N","O","P","Q","R","S","T","U","V","W","X","Y","Z"}
DigitChars == {"0","1","2","3","4","5","6","7","8","9"}

\* the character class [A-Za-z0-9_\-] of the patterns
IdChars == LowerChars \cup UpperChars \cup DigitChars \cup {"_", "-"}

\* the quantifier {6,} of the patterns
MIN_ID_LEN == 6

\* the literal prefixes of the three patterns, in the order of the list
YT_ID_PATTERNS ==
    << <<"v","=">>,
       <<"y","o","u","t","u",".","b","e","/">>,
       <<"s","h","o","r","t","s","/">> >>

\* the literal m occurs in s at position i
LiteralAt(m, s, i) ==
    /\ i + Len(m) - 1 <= Len(s)
    /\ \A j \in 1..Len(m) : s[i + j - 1] = m[j]

\* length of the longest run of identifier characters of s starting at i
\* (the greedy quantifier takes all of it)
RECURSIVE RunLen(_, _)
RunLen(s, i) ==
    IF i > Len(s) \/ s[i] \notin IdChars THEN 0 ELSE 1 + RunLen(s, i + 1)

NoMatch == [matched |-> FALSE, group |-> <<>>]

\* re.search(m + "([A-Za-z0-9_\-]{6,})", s), scanning start positions from i
RECURSIVE SearchFrom(_, _, _)
SearchFrom(m, s, i) ==
    IF i > Len(s) THEN NoMatch
    ELSE IF LiteralAt(m, s, i) /\ RunLen(s, i + Len(m)) >= MIN_ID_LEN
         THEN [matched |-> TRUE,
               group |-> SubSeq(s, i + Len(m), i + Len(m) + RunLen(s, i + Len(m)) - 1)]
         ELSE SearchFrom(m, s, i + 1)

ReSearch(m, s) == SearchFrom(m, s, 1)

\* re.fullmatch("[A-Za-z0-9_\-]{6,}", s)
ReFullMatch(s) == Len(s) >= MIN_ID_LEN /\ \A i \in 1..Len(s) : s[i] \in IdChars

Returned(v, tr) == [ret |-> v, exc |-> "none", trace |-> tr]
Raised(e, tr) == [ret |-> <<>>, exc |-> e, trace |-> tr]

\* the loop of extract_video_id over the patterns k, k+1, ...
RECURSIVE TryPatterns(_, _, _)
TryPatterns(pats, s, k) ==
    IF k > Len(pats) THEN NoMatch
    ELSE LET m == ReSearch(pats[k], s)
         IN  IF m.matched THEN m ELSE TryPatterns(pats, s, k + 1)

ExtractVideoId_ReversedOrder(url_or_id) ==
    LET rev == <<YT_ID_PATTERNS[3], YT_ID_PATTERNS[2], YT_ID_PATTERNS[1]>>
        m == TryPatterns(rev, url_or_id, 1)
    IN  IF m.matched THEN Returned(m.group, <<>>)
        ELSE IF ReFullMatch(url_or_id) THEN Returned(url_or_id, <<>>)
        ELSE Raised("ValueError", <<>>)

ExtractVideoId(url_or_id) ==
    LET m == TryPatterns(YT_ID_PATTERNS, url_or_id, 1)
    IN  IF m.matched THEN Returned(m.group, <<>>)
        ELSE IF ReFullMatch(url_or_id) THEN Returned(url_or_id, <<>>)
        ELSE Raised("ValueError", <<>>)

\* concatenation of a sequence of strings
RECURSIVE Flatten(_)
Flatten(ts) == IF ts = <<>> THEN <<>> ELSE Head(ts) \o Flatten(Tail(ts))

\* the pieces URL inputs are built from
UrlTokens ==
    { YT_ID_PATTERNS[1], YT_ID_PATTERNS[2], YT_ID_PATTERNS[3],
      <<"a","B","3","_","-","x">>,
      <<"a","b","c">>,
      <<"?">>,
      <<"Z">> }

UrlInputs == {Flatten(ts) : ts \in SeqsUpTo(UrlTokens, MaxTokens)}

----------------------------------------------------------------------------
(* Run-length encoded texts (transcripts, prompts, summaries) *)

\* characters str.strip() removes
Whitespace == {" ", "\n", "\t"}

\* len(t)
RECURSIVE TLen(_)
TLen(t) == IF t = <<>> THEN 0 ELSE Head(t).n + TLen(Tail(t))

RECURSIVE TStripLeft(_)
TStripLeft(t) ==
    IF t = <<>> THEN <<>>
    ELSE IF Head(t).c \in Whitespace THEN TStripLeft(Tail(t)) ELSE t

RECURSIVE TStripRight(_)
TStripRight(t) ==
    IF t = <<>> THEN <<>>
    ELSE IF t[Len(t)].c \in Whitespace THEN TStripRight(SubSeq(t, 1, Len(t) - 1)) ELSE t

\* t.strip()
TStrip(t) == TStripRight(TStripLeft(t))

\* t[:k]
RECURSIVE TTake(_, _)
TTake(t, k) ==
    IF k <= 0 \/ t = <<>> THEN <<>>
    ELSE IF Head(t).n >= k THEN << [c |-> Head(t).c, n |-> k] >>
    ELSE <<Head(t)>> \o TTake(Tail(t), k - Head(t).n)

\* a + b
TCat(a, b) ==
    IF a = <<>> THEN b
    ELSE IF b = <<>> THEN a
    ELSE IF a[Len(a)].c = b[1].c
         THEN SubSeq(a, 1, Len(a) - 1)
              \o << [c |-> b[1].c, n |-> a[Len(a)].n + b[1].n] >>
              \o Tail(b)
         ELSE a \o b

\* the text is well formed: no empty run, adjacent runs differ
WellFormed(t) ==
    /\ \A i \in 1..Len(t) : t[i].n >= 1
    /\ \A i \in 1..(Len(t) - 1) : t[i].c # t[i + 1].c

\* Uzun metinlerde karakter siniri
MAX_INPUT_CHARS == 12000

\* the literal " ..." appended to a truncated text
ELLIPSIS == << [c |-> " ", n |-> 1], [c |-> ".", n |-> 3] >>

\* the prompt: the f-string of build_prompt, its literal pieces and its two holes
Prompt(language, text) ==
    [head |-> "Summarize the following YouTube transcript in ",
     language |-> language,
     mid |-> ". Provide a detailed but clear summary of the content:\n\"\"\"",
     text |-> text,
     tail |-> "\"\"\""]

\* x or ""  for an Optional text x
OrEmpty(x) == IF x = None THEN <<>> ELSE x[1]

BuildPrompt_OffByOne(text, language) ==
    LET t == TStrip(OrEmpty(text))
    IN  IF t = <<>> THEN Raised("ValueError", <<>>)
        ELSE IF TLen(t) >= MAX_INPUT_CHARS
             THEN Returned(Prompt(language, TCat(TTake(t, MAX_INPUT_CHARS), ELLIPSIS)), <<>>)
             ELSE Returned(Prompt(language, t), <<>>)

BuildPrompt(text, language) ==
    LET t == TStrip(OrEmpty(text))
    IN  IF t = <<>> THEN Raised("ValueError", <<>>)
        ELSE IF TLen(t) > MAX_INPUT_CHARS
             THEN Returned(Prompt(language, TCat(TTake(t, MAX_INPUT_CHARS), ELLIPSIS)), <<>>)
             ELSE Returned(Prompt(language, t), <<>>)

\* the run lengths and characters input texts are built from
RunLens == {1, 2, MAX_INPUT_CHARS \div 2, MAX_INPUT_CHARS - 1, MAX_INPUT_CHARS}
TextChars == {" ", "a", "b"}
Runs == [c : TextChars, n : RunLens]

TextInputs == {t \in SeqsUpTo(Runs, MaxRuns) : WellFormed(t)}

Languages == {"tr", "en"}

----------------------------------------------------------------------------
(* External collaborators: what they answer during one call *)

\* yt-dlp's extract_info: raises DownloadError for an unavailable video or a
\* transport failure, otherwise returns the info dict
VideoAnswers == {"unavailable", "network_error", "ok"}

\* info['subtitles']: the languages that carry at least one subtitle track
\* (the empty set: captions disabled or none found)
SubtitleSets == { {}, {"de"}, {"en"}, {"tr", "en"} }

\* requests.get(sub_url): raises, or returns a body
HttpAnswers == {"raise", "ok"}

HelloText == << [c |-> "a", n |-> 5] >>
BlankText == << [c |-> " ", n |-> 2] >>
GreetingText == << [c |-> " ", n |-> 1], [c |-> "b", n |-> 17], [c |-> "\n", n |-> 1] >>

\* elem.text of a <text> element: None, "", blanks, or words
ElemTexts == {None, Some(<<>>), Some(BlankText), Some(HelloText)}

\* the downloaded document: None when it is not well-formed XML, otherwise the
\* elem.text of its <text> elements in document order
BodyAnswers == {None} \cup {Some(segs) : segs \in SeqsUpTo(ElemTexts, MaxSegs)}

\* generate_content: raises, or returns a response whose text is missing/None,
\* empty, blank, or a summary with surrounding whitespace
GeminiAnswers ==
    { [kind |-> "raise", text |-> None] }
    \cup { [kind |-> "resp", text |-> t] :
             t \in {None, Some(<<>>), Some(BlankText), Some(GreetingText)} }

Envs == [video : VideoAnswers, subs : SubtitleSets, http : HttpAnswers,
         body : BodyAnswers, gemini : GeminiAnswers]

DefaultEnv == [video |-> "ok", subs |-> {"tr", "en"}, http |-> "ok",
               body |-> Some(<< Some(HelloText) >>),
               gemini |-> [kind |-> "resp", text |-> Some(GreetingText)]]

----------------------------------------------------------------------------
(* fetch_transcript *)

\* [elem.text for elem in elems if elem.text]: None and "" are dropped
TruthyTexts(segs) == SelectSeq(segs, LAMBDA x : x # None /\ x # Some(<<>>))

\* " ".join(texts)
RECURSIVE JoinWithSpace(_)
JoinWithSpace(texts) ==
    IF texts = <<>> THEN <<>>
    ELSE IF Len(texts) = 1 THEN texts[1][1]
    ELSE TCat(TCat(texts[1][1], << [c |-> " ", n |-> 1] >>), JoinWithSpace(Tail(texts)))

JoinTexts(segs) == JoinWithSpace(TruthyTexts(segs))

\* the first language of langs that has a track, None if there is none
RECURSIVE SelectSub(_, _)
SelectSub(langs, subtitles) ==
    IF langs = <<>> THEN None
    ELSE IF Head(langs) \in subtitles THEN Some(Head(langs))
    ELSE SelectSub(Tail(langs), subtitles)

\* prefer_langs or ['tr', 'en']
OrDefaultLangs(prefer_langs) ==
    IF prefer_langs = None \/ prefer_langs = Some(<<>>) THEN <<"tr", "en">>
    ELSE prefer_langs[1]

\* the body of the try statement of fetch_transcript; every raise inside it is
\* reported here under the name of the exception that is raised
FetchTranscriptTry(url, prefer_langs, e) ==
    IF e.video # "ok" THEN Raised("DownloadError", <<"extract_info">>)
    ELSE IF e.subs = {} THEN Raised("ValueError", <<"extract_info">>)
    ELSE IF SelectSub(OrDefaultLangs(prefer_langs), e.subs) = None
         THEN Raised("ValueError", <<"extract_info">>)
    ELSE IF e.http = "raise"
         THEN Raised("RequestException", <<"extract_info", "requests.get">>)
    ELSE IF e.body = None
         THEN Raised("ParseError", <<"extract_info", "requests.get">>)
    ELSE LET full_text == JoinTexts(e.body[1])
         IN  IF TStrip(full_text) = <<>>
             THEN Raised("ValueError", <<"extract_info", "requests.get">>)
             ELSE Returned(full_text, <<"extract_info", "requests.get">>)

\* fetch_transcript: the try body, and "except Exception as e: raise ValueError"
FetchTranscript(url, prefer_langs, e) ==
    LET r == FetchTranscriptTry(url, prefer_langs, e)
    IN  IF r.exc # "none" THEN Raised("ValueError", r.trace) ELSE r

\* the parameters fetch_transcript declares
FETCH_TRANSCRIPT_PARAMS == {"url", "prefer_langs"}

----------------------------------------------------------------------------
(* summarize_with_gemini *)

SummarizeWithGemini_Retry(text, language, e) ==
    LET p == BuildPrompt(text, language)
    IN  IF p.exc # "none" THEN Raised(p.exc, <<>>)
        ELSE IF e.gemini.kind = "raise" \/ TStrip(OrEmpty(e.gemini.text)) = <<>>
             THEN Raised("RuntimeError", <<"generate_content", "generate_content">>)
             ELSE Returned(TStrip(OrEmpty(e.gemini.text)), <<"generate_content">>)

SummarizeWithGemini(text, language, e) ==
    LET p == BuildPrompt(text, language)
    IN  IF p.exc # "none" THEN Raised(p.exc, <<>>)
        ELSE IF e.gemini.kind = "raise"
             THEN Raised("RuntimeError", <<"generate_content">>)
        ELSE LET summary == TStrip(OrEmpty(e.gemini.text))
             IN  IF summary = <<>>
                 THEN Raised("RuntimeError", <<"generate_content">>)
                 ELSE Returned(summary, <<"generate_content">>)

----------------------------------------------------------------------------
(* Name resolution *)

\* the names the module binds at its top level: imports (lines 9-21),
\* assignments and definitions
ModuleGlobals ==
    {"os", "re", "Optional", "List", "FastAPI", "HTTPException", "CORSMiddleware",
     "BaseModel", "YoutubeDL", "load_dotenv", "genai",
     "ENV_API_KEY_NAME", "DEFAULT_MODEL", "DEFAULT_LANGS", "MAX_INPUT_CHARS",
     "_YT_ID_PATTERNS", "API_KEY", "client", "ytt_api", "app",
     "SummarizeReq", "SummarizeRes", "extract_video_id", "fetch_transcript",
     "build_prompt", "summarize_with_gemini", "health", "summarize"}

\* the built-in exception classes the code names
Builtins == {"Exception", "ValueError", "RuntimeError", "TypeError", "NameError"}

\* a global name lookup succeeds
Resolves(name) == name \in ModuleGlobals \cup Builtins

\* the built-in exceptions are all subclasses of Exception; the exceptions of
\* the collaborators (DownloadError, RequestException, ParseError) are too
IsInstance(exc, cls) == cls = "Exception" \/ exc = cls

----------------------------------------------------------------------------
(* The /summarize handler *)

\* outcome of the handler: a returned SummarizeRes (status 200), a raised
\* HTTPException (its status_code), or an exception that leaves the handler
\* (escaped), which the framework answers with its own 500
Response(status, body, tr) ==
    [status |-> status, body |-> body, escaped |-> "none", trace |-> tr]
HttpError(status, tr) ==
    [status |-> status, body |-> None, escaped |-> "none", trace |-> tr]
Escaped(e, tr) ==
    [status |-> 500, body |-> None, escaped |-> e, trace |-> tr]

\* req.language or "tr"
LanguageOrTr(language) ==
    IF language = None \/ language = Some("") THEN "tr" ELSE language[1]

\* the except clauses of the handler, tried in order on the exception exc
\* raised by the try body; the expression of a clause is evaluated when the
\* clause is tried, and a name in it that does not resolve raises NameError
ExceptChain(exc, tr) ==
    IF ~ (\A n \in {"TranscriptsDisabled", "NoTranscriptFound", "VideoUnavailable"} :
             Resolves(n))
    THEN Escaped("NameError", tr)
    ELSE IF exc \in {"TranscriptsDisabled", "NoTranscriptFound", "VideoUnavailable"}
         THEN HttpError(404, tr)
    ELSE IF IsInstance(exc, "ValueError") THEN HttpError(400, tr)
    ELSE IF IsInstance(exc, "RuntimeError") THEN HttpError(502, tr)
    ELSE HttpError(500, tr)

\* the try body of the handler
SummarizeTry(req, e) ==
    LET lang == LanguageOrTr(req.language)
    IN  IF ~ ({"prefer_langs", "preserve_formatting"} \subseteq FETCH_TRANSCRIPT_PARAMS)
        THEN Raised("TypeError", <<>>)
        ELSE
        LET t == FetchTranscript(req.url_or_id, Some(<<lang, "tr-TR", "en">>), e)
        IN  IF t.exc # "none" THEN t
            ELSE
            LET v == ExtractVideoId(req.url_or_id)
            IN  IF v.exc # "none" THEN Raised(v.exc, t.trace)
                ELSE
                LET g == SummarizeWithGemini(Some(t.ret), lang, e)
                IN  IF g.exc # "none" THEN Raised(g.exc, t.trace \o g.trace)
                    ELSE Returned([video_id |-> v.ret, language |-> lang,
                                   summary |-> g.ret],
                                  t.trace \o g.trace)

Summarize_Degraded(req, e) ==
    LET r == SummarizeTry(req, e)
    IN  IF r.exc = "none" THEN Response(200, Some(r.ret), r.trace)
        ELSE Response(200,
                      Some([video_id |-> req.url_or_id,
                            language |-> LanguageOrTr(req.language),
                            summary |-> <<>>]),
                      r.trace)

Summarize(req, e) ==
    LET r == SummarizeTry(req, e)
    IN  IF r.exc = "none" THEN Response(200, Some(r.ret), r.trace)
        ELSE ExceptChain(r.exc, r.trace)

----------------------------------------------------------------------------
(* Spec: the functions applied to inputs.  Each behaviour applies one       *)
(* function once, to one input and one set of collaborator answers.        *)

HandlerUrls ==
    { <<"a","b","c">>,
      <<"a","B","3","_","-","x">>,
      YT_ID_PATTERNS[1] \o <<"a","B","3","_","-","x">>,
      YT_ID_PATTERNS[2] \o <<"a","B","3","_","-","x">> }

RequestLanguages == {None, Some(""), Some("tr"), Some("de")}

Requests == [url_or_id : HandlerUrls, language : RequestLanguages]

PreferLangs == {None, Some(<<>>), Some(<<"de">>), Some(<<"tr", "tr-TR", "en">>)}

\* environments that differ only in what the transcript side answers
FetchEnvs == {e \in Envs : e.gemini = DefaultEnv.gemini}

\* environments that differ only in what the generation side answers
GeminiEnvs == {e \in Envs : /\ e.video = DefaultEnv.video /\ e.subs = DefaultEnv.subs
                            /\ e.http = DefaultEnv.http /\ e.body = DefaultEnv.body}

Init ==
    /\ op = "none"
    /\ arg = <<>>
    /\ env = DefaultEnv
    /\ res = Returned(<<>>, <<>>)
    /\ pc = "load_dotenv"
    /\ environ = None
    /\ dotenvFile = None
    /\ API_KEY = None
    /\ fatal = "none"
    /\ served = {}
    /\ refused = 0

CallExtractVideoId ==
    /\ op = "none"
    /\ \E s \in UrlInputs :
           /\ op' = "extract_video_id"
           /\ arg' = s
           /\ env' = DefaultEnv
           /\ res' = ExtractVideoId(s)
           /\ UNCHANGED bootVars

CallBuildPrompt ==
    /\ op = "none"
    /\ \E t \in {None} \cup {Some(x) : x \in TextInputs}, l \in Languages :
           /\ op' = "build_prompt"
           /\ arg' = [text |-> t, language |-> l]
           /\ env' = DefaultEnv
           /\ res' = BuildPrompt(t, l)
           /\ UNCHANGED bootVars

CallFetchTranscript ==
    /\ op = "none"
    /\ \E u \in HandlerUrls, pl \in PreferLangs, e \in FetchEnvs :
           /\ op' = "fetch_transcript"
           /\ arg' = [url |-> u, prefer_langs |-> pl]
           /\ env' = e
           /\ res' = FetchTranscript(u, pl, e)
           /\ UNCHANGED bootVars

CallSummarizeWithGemini ==
    /\ op = "none"
    /\ \E t \in {None, Some(<<>>), Some(BlankText), Some(HelloText), Some(GreetingText)},
          l \in Languages, e \in GeminiEnvs :
           /\ op' = "summarize_with_gemini"
           /\ arg' = [text |-> t, language |-> l]
           /\ env' = e
           /\ res' = SummarizeWithGemini(t, l, e)
           /\ UNCHANGED bootVars

CallSummarize ==
    /\ op = "none"
    /\ \E r \in Requests, e \in Envs :
           /\ op' = "summarize"
           /\ arg' = r
           /\ env' = e
           /\ res' = Summarize(r, e)
           /\ UNCHANGED bootVars

Next ==
    \/ CallExtractVideoId
    \/ CallBuildPrompt
    \/ CallFetchTranscript
    \/ CallSummarizeWithGemini
    \/ CallSummarize

Spec == Init /\ [][Next]_vars

----------------------------------------------------------------------------
(* SpecStartup: the module-level statements of app.py, executed in order   *)
(* when the process imports the module, and clients trying to reach it.    *)

KeyValues == {"", "key-1", "key-2"}
OptionalKeys == {None} \cup {Some(k) : k \in KeyValues}

Paths == {"/health", "/summarize"}

InitStartup ==
    /\ op = "none"
    /\ arg = <<>>
    /\ env = DefaultEnv
    /\ res = Returned(<<>>, <<>>)
    /\ pc = "load_dotenv"
    /\ environ \in OptionalKeys
    /\ dotenvFile \in OptionalKeys
    /\ API_KEY = None
    /\ fatal = "none"
    /\ served = {}
    /\ refused = 0

\* load_dotenv(): a variable of the .env file is set unless the environment
\* already has it
LoadDotenv ==
    /\ pc = "load_dotenv"
    /\ environ' = IF environ = None THEN dotenvFile ELSE environ
    /\ pc' = "getenv"
    /\ UNCHANGED <<dotenvFile, API_KEY, fatal, served, refused>>
    /\ UNCHANGED fnVars

\* API_KEY = os.getenv(ENV_API_KEY_NAME)
GetEnv ==
    /\ pc = "getenv"
    /\ API_KEY' = environ
    /\ pc' = "check_key"
    /\ UNCHANGED <<environ, dotenvFile, fatal, served, refused>>
    /\ UNCHANGED fnVars

KeyMissing_NeverMissing(key) == FALSE

\* not API_KEY
KeyMissing(key) == key = None \/ key = Some("")

\* if not API_KEY: raise RuntimeError(...)
CheckKey ==
    /\ pc = "check_key"
    /\ IF KeyMissing(API_KEY)
       THEN pc' = "crashed" /\ fatal' = "RuntimeError"
       ELSE pc' = "make_client" /\ fatal' = fatal
    /\ UNCHANGED <<environ, dotenvFile, API_KEY, served, refused>>
    /\ UNCHANGED fnVars

\* client = genai.Client(api_key=API_KEY)
MakeClient ==
    /\ pc = "make_client"
    /\ pc' = "make_ytt_api"
    /\ UNCHANGED <<environ, dotenvFile, API_KEY, fatal, served, refused>>
    /\ UNCHANGED fnVars

\* ytt_api = YouTubeTranscriptApi(), then the app, its middleware and its
\* routes; the name YouTubeTranscriptApi is looked up when the statement runs
FinishImport ==
    /\ pc = "make_ytt_api"
    /\ IF Resolves("YouTubeTranscriptApi")
       THEN pc' = "serving" /\ fatal' = fatal
       ELSE pc' = "crashed" /\ fatal' = "NameError"
    /\ UNCHANGED <<environ, dotenvFile, API_KEY, served, refused>>
    /\ UNCHANGED fnVars

\* a client sends a request: it is served only by a process whose import of
\* the module has completed
ClientRequest ==
    /\ refused < MaxAttempts
    /\ \E path \in Paths :
           IF pc = "serving"
           THEN served' = served \cup {path} /\ refused' = refused
           ELSE served' = served /\ refused' = refused + 1
    /\ UNCHANGED <<pc, environ, dotenvFile, API_KEY, fatal>>
    /\ UNCHANGED fnVars

NextStartup ==
    \/ LoadDotenv
    \/ GetEnv
    \/ CheckKey
    \/ MakeClient
    \/ FinishImport
    \/ ClientRequest

SpecStartup == InitStartup /\ [][NextStartup]_vars

----------------------------------------------------------------------------
(* Properties *)

\* number of occurrences of x in the sequence tr
Count(x, tr) == Cardinality({i \in 1..Len(tr) : tr[i] = x})

\* positions where pattern literal m is followed by at least MIN_ID_LEN
\* identifier characters
Hits(m, s) ==
    {i \in 1..Len(s) : /\ LiteralAt(m, s, i)
                       /\ i + Len(m) + MIN_ID_LEN - 1 <= Len(s)
                       /\ \A j \in 0..(MIN_ID_LEN - 1) : s[i + Len(m) + j] \in IdChars}

\* the longest run of identifier characters of s that starts at position a
IdRunAt(s, a) ==
    LET ends == {b \in a..Len(s) :
                    /\ \A j \in a..b : s[j] \in IdChars
                    /\ (b = Len(s) \/ s[b + 1] \notin IdChars)}
    IN  SubSeq(s, a, Min(ends))

\* the id of the leftmost occurrence of the k-th URL shape in s
ShapeId(k, s) == IdRunAt(s, Min(Hits(YT_ID_PATTERNS[k], s)) + Len(YT_ID_PATTERNS[k]))

\* s is no identifier and contains none of the three URL shapes
InvalidIdentifier(s) ==
    /\ \A k \in 1..3 : Hits(YT_ID_PATTERNS[k], s) = {}
    /\ ~ (Len(s) >= MIN_ID_LEN /\ \A i \in 1..Len(s) : s[i] \in IdChars)

\* t is x without its leading and trailing whitespace
IsTrimOf(t, x) ==
    \/ /\ t = <<>>
       /\ \A k \in 1..Len(x) : x[k].c \in Whitespace
    \/ \E i \in 1..Len(x), j \in 1..Len(x) :
          /\ i <= j
          /\ t = SubSeq(x, i, j)
          /\ x[i].c \notin Whitespace /\ x[j].c \notin Whitespace
          /\ \A k \in 1..(i - 1) : x[k].c \in Whitespace
          /\ \A k \in (j + 1)..Len(x) : x[k].c \in Whitespace

\* the languages the handler asks the transcript side for
HandlerLangs(req) ==
    << (IF req.language = None \/ req.language = Some("") THEN "tr" ELSE req.language[1]),
       "tr-TR", "en" >>

\* the transcript side reports the video unavailable, or no captions at all,
\* or none in a requested language
ReportsUnavailable(e, langs) ==
    \/ e.video = "unavailable"
    \/ /\ e.video = "ok"
       /\ \A i \in 1..Len(langs) : langs[i] \notin e.subs

\* the transcript fetch fails in transport or parsing
FailsInTransport(e, langs) ==
    \/ e.video = "network_error"
    \/ /\ e.video = "ok"
       /\ \E i \in 1..Len(langs) : langs[i] \in e.subs
       /\ (e.http = "raise" \/ e.body = None)

\* the generation side raises, or answers with a missing or blank text
GeminiFailsOrBlank(e) ==
    \/ e.gemini.kind = "raise"
    \/ e.gemini.text = None
    \/ \A k \in 1..Len(e.gemini.text[1]) : e.gemini.text[1][k].c \in Whitespace

\* C1: a /summarize request whose url_or_id is no identifier and matches no URL
\* pattern is answered with status 400 by the handler itself, and no external
\* call has been made on that request.
C1_InvalidInputIs400BeforeAnyCall ==
    (op = "summarize" /\ InvalidIdentifier(arg.url_or_id))
        => (res.status = 400 /\ res.escaped = "none" /\ res.trace = <<>>)

\* C2: whenever the transcript side reports captions disabled, not found or the
\* video unavailable, the handler's answer has status 404: the exception that
\* fetch_transcript raises is mapped to 404 by the handler's except clauses,
\* and a request on which the report was made ends with status 404.
C2_UnavailableIs404 ==
    /\ (op = "fetch_transcript"
        /\ ReportsUnavailable(env, OrDefaultLangs(arg.prefer_langs)))
            => (ExceptChain(res.exc, res.trace).status = 404
                /\ ExceptChain(res.exc, res.trace).escaped = "none")
    /\ (op = "summarize" /\ Count("extract_info", res.trace) > 0
        /\ ReportsUnavailable(env, HandlerLangs(arg)))
            => (res.status = 404 /\ res.escaped = "none")

\* C3: whenever the transcript fetch fails in transport or parsing (not by a
\* report of unavailability), the handler's answer has status 502.
C3_FetchFailureIs502 ==
    /\ (op = "fetch_transcript"
        /\ FailsInTransport(env, OrDefaultLangs(arg.prefer_langs)))
            => (ExceptChain(res.exc, res.trace).status = 502
                /\ ExceptChain(res.exc, res.trace).escaped = "none")
    /\ (op = "summarize" /\ Count("extract_info", res.trace) > 0
        /\ FailsInTransport(env, HandlerLangs(arg)))
            => (res.status = 502 /\ res.escaped = "none")

\* C4: whenever summarization is given a non-empty transcript and the
\* generation side raises or answers blank or without text, the handler's
\* answer has status 502, the same in both cases.
C4_SummarizationFailureIs502 ==
    (op = "summarize_with_gemini"
     /\ arg.text # None
     /\ \E k \in 1..Len(arg.text[1]) : arg.text[1][k].c \notin Whitespace
     /\ GeminiFailsOrBlank(env))
        => (ExceptChain(res.exc, res.trace).status = 502
            /\ ExceptChain(res.exc, res.trace).escaped = "none")

\* C5: every /summarize request ends in a returned result (200) or in an
\* HTTPException raised by the handler with status 404, 400, 502 or 500; no
\* exception leaves the handler unmapped.
C5_MappingIsTotal ==
    op = "summarize"
        => (res.escaped = "none" /\ res.status \in {200, 404, 400, 502, 500})

CredentialAbsent ==
    LET effective == IF environ = None THEN dotenvFile ELSE environ
    IN  effective = None \/ effective = Some("")

\* C8: if the credential is absent at process start, startup ends in the
\* RuntimeError of the credential check, before the client is built, and the
\* process never serves a request.
C8_MissingCredentialIsFatal ==
    CredentialAbsent
        => /\ served = {}
           /\ pc \in {"load_dotenv", "getenv", "check_key", "crashed"}
           /\ pc = "crashed" => fatal = "RuntimeError"

\* C8 witness: the credential is absent, startup has failed, and a client has
\* tried to reach the process in vain.
C8_Witness ==
    /\ CredentialAbsent
    /\ pc = "crashed"
    /\ fatal = "RuntimeError"
    /\ refused > 0
    /\ served = {}

\* C9 as stated: for each of the three URL shapes the input contains,
\* extract_video_id returns exactly that shape's id, so the shapes never
\* compete.
C9_EveryShapeYieldsItsId ==
    op = "extract_video_id"
        => \A k \in 1..3 :
              Hits(YT_ID_PATTERNS[k], arg) # {}
                => (res.exc = "none" /\ res.ret = ShapeId(k, arg))

\* C9 as amended: extract_video_id returns the id of the first of the shapes
\* v=, youtu.be/, shorts/ (in this order) that the input contains; the id of a
\* later shape is returned only when no earlier shape occurs in the input.
C9_FirstShapeInOrderYieldsItsId ==
    op = "extract_video_id"
        => \A k \in 1..3 :
              (/\ Hits(YT_ID_PATTERNS[k], arg) # {}
               /\ \A j \in 1..(k - 1) : Hits(YT_ID_PATTERNS[j], arg) = {})
                => (res.exc = "none" /\ res.ret = ShapeId(k, arg))

\* C9 witness: an input containing two shapes with different ids, answered
\* with the id of the earlier shape in the order.
C9_Witness ==
    /\ op = "extract_video_id"
    /\ Hits(YT_ID_PATTERNS[1], arg) # {}
    /\ Hits(YT_ID_PATTERNS[2], arg) # {}
    /\ ShapeId(1, arg) # ShapeId(2, arg)
    /\ res.ret = ShapeId(1, arg)

\* C10: build_prompt embeds the trimmed text unmodified when it has at most
\* MAX_INPUT_CHARS characters, and its first MAX_INPUT_CHARS characters
\* followed by " ..." when it has more; the embedded text is never longer than
\* the ceiling plus the marker; a text that is empty after trimming raises
\* ValueError.
C10_PromptTruncation ==
    op = "build_prompt"
        => \A t \in {SubSeq(OrEmpty(arg.text), i, j) :
                        i \in 1..(Len(OrEmpty(arg.text)) + 1),
                        j \in 0..Len(OrEmpty(arg.text))} :
              IsTrimOf(t, OrEmpty(arg.text))
                => /\ t = <<>> => res.exc = "ValueError"
                   /\ (t # <<>> /\ TLen(t) <= MAX_INPUT_CHARS)
                        => (res.exc = "none" /\ res.ret.text = t)
                   /\ TLen(t) > MAX_INPUT_CHARS
                        => /\ res.exc = "none"
                           /\ TLen(res.ret.text) = MAX_INPUT_CHARS + TLen(ELLIPSIS)
                           /\ TTake(res.ret.text, MAX_INPUT_CHARS) = TTake(t, MAX_INPUT_CHARS)
                           /\ res.ret.text = TCat(TTake(t, MAX_INPUT_CHARS), ELLIPSIS)
                   /\ res.exc = "none"
                        => TLen(res.ret.text) <= MAX_INPUT_CHARS + TLen(ELLIPSIS)

\* C10 witness: a text longer than the ceiling after trimming, with leading
\* whitespace removed, embedded as its first MAX_INPUT_CHARS characters and
\* the marker.
C10_Witness ==
    /\ op = "build_prompt"
    /\ arg.text # None
    /\ Len(arg.text[1]) > 1
    /\ arg.text[1][1].c \in Whitespace
    /\ res.exc = "none"
    /\ TLen(res.ret.text) = MAX_INPUT_CHARS + TLen(ELLIPSIS)

====
